---- MODULE Spec2Model ----
(***************************************************************************)
(* A model of src/api.js: the WolframAlphaApi connection manager, the      *)
(* Response / QueryResult aggregator and the Deferred completion handle.   *)
(*                                                                         *)
(* JavaScript runs each event handler to completion, so every handler is   *)
(* one atomic action.  The `ws' WebSocket objects are the environment:     *)
(* each one created by doWebsocketConnect is "connecting", may emit        *)
(* 'open', may emit 'error' (after which its 'close' follows), and emits   *)
(* 'close' last.  The handlers registered on a WebSocket close over the    *)
(* api object, not over the WebSocket, so they run whether or not that     *)
(* WebSocket is still the one stored in this.socket.                       *)
(*                                                                         *)
(* A handler that throws leaves the assignments it had made and skips the  *)
(* rest; uncaught records that it threw.  The model goes on after that, as *)
(* a host with an uncaughtException handler does; a host without one stops *)
(* there, which is one of the behaviours the model allows.                 *)
(*                                                                         *)
(* A Map is modelled as a function: the order in which a Map iterates is   *)
(* not kept.                                                               *)
(***************************************************************************)
EXTENDS Integers, Sequences, FiniteSets, TLC

\* Bounds of the model.
MaxSessions == 2
MaxMsgs == 2
\* Fragments delivered to the one session of SpecSession
MaxFrags == 3
\* Assumptions fragments delivered to the one session of SpecExpand
MaxExpand == 2

VARIABLES
    sessions,          \* the QueryResult objects, in creation order
    pendingResponses,  \* WolframAlphaApi.pendingResponses: id -> index into sessions
    socket,            \* WolframAlphaApi.socket: 0 is null, else an index into sock
    socketReady,       \* WolframAlphaApi.socketReady
    queue,             \* WolframAlphaApi._queue
    sock,              \* the WebSocket objects created so far: their transport state
    wire,              \* what was handed to WebSocket.send, in order: [on, msg]
    dropped,           \* the locationIds handleMessage found no session for, in order
    uncaught           \* TRUE once a handler has thrown

vars == <<sessions, pendingResponses, socket, socketReady, queue, sock, wire,
          dropped, uncaught>>

----------------------------------------------------------------------------
\* Values

\* The search inputs callers submit.
Inputs == {"x"}

\* uuid(): the n-th identifier generated in this process; all are distinct.
uuid(n) == "u" \o ToString(n)

\* new Deferred(): a promise, pending.
Deferred == [state |-> "Pending", reason |-> 0]

\* Mutant of resolve: settles whatever the promise's state is.
resolveAlways(d) == [state |-> "Resolved", reason |-> 0]

\* Deferred.resolve: the promise's resolve function; settles a pending promise only.
resolve(d) == IF d.state = "Pending" THEN [state |-> "Resolved", reason |-> 0] ELSE d

\* Mutant of reject: settles whatever the promise's state is.
rejectAlways(d, error) == [state |-> "Rejected", reason |-> error]

\* Deferred.reject: the promise's reject function; settles a pending promise only.
reject(d, error) ==
    IF d.state = "Pending" THEN [state |-> "Rejected", reason |-> error] ELSE d

\* Map.prototype.set
MapSet(m, k, v) == [x \in (DOMAIN m) \cup {k} |-> IF x = k THEN v ELSE m[x]]

\* Map.prototype.delete
MapDelete(m, k) == [x \in (DOMAIN m) \ {k} |-> m[x]]

EmptyMap == [x \in {} |-> 0]

\* new QueryResult(api, id, input, assumptions)
QueryResult(id, input, assumptions) ==
    [ id               |-> id,
      responseObjects  |-> <<>>,
      listening        |-> FALSE,
      emitted          |-> <<>>,
      deferred         |-> Deferred,
      server           |-> "",
      host             |-> "",
      originalInput    |-> input,
      inputAssumptions |-> assumptions,
      correctedInput   |-> "",
      didYouMean       |-> <<>>,
      pods             |-> EmptyMap,
      erroredPods      |-> <<>>,
      stepByStep       |-> EmptyMap,
      assumptions      |-> <<>>,
      warnings         |-> <<>>,
      failed           |-> FALSE,
      futureTopic      |-> <<>>,
      timedOut         |-> <<>> ]

\* opts.language, at its default
language == "en"

\* The request object built by query(); "null" stands for null.
Request(id, input, assumptions) ==
    [ type |-> "newQuery", language |-> language, file |-> "null",
      input |-> input, assumption |-> assumptions, locationId |-> id ]

\* The message the 'open' handler sends.  Its exp field, Date.now(), is left
\* out: nothing reads it back.
InitMessage(messages) ==
    [ type |-> "init", lang |-> language, messages |-> messages ]

----------------------------------------------------------------------------
\* Strings, as the assumptions case uses them

Char(s, i) == SubSeq(s, i, i)

Alphabet == "abcdefghijklmnopqrstuvwxyzABCDEFGHIJKLMNOPQRSTUVWXYZ0123456789_"

\* The regular expression class \w
WordChars == { Char(Alphabet, i) : i \in 1..Len(Alphabet) }

\* String.prototype.includes
includes(s, sub) ==
    \E i \in 1..(Len(s) + 1) :
        /\ i + Len(sub) - 1 <= Len(s)
        /\ SubSeq(s, i, i + Len(sub) - 1) = sub

\* The first index >= j of t that holds no \w character (Len(t) + 1 when none)
RECURSIVE WordEnd(_, _)
WordEnd(t, j) ==
    IF j <= Len(t) /\ Char(t, j) \in WordChars THEN WordEnd(t, j + 1) ELSE j

\* Where a match of /\${\w*}/ that starts at index i of t ends; 0 when none starts there
MatchEnd(t, i) ==
    IF i + 1 <= Len(t) /\ Char(t, i) = "$" /\ Char(t, i + 1) = "{"
    THEN LET e == WordEnd(t, i + 2)
         IN  IF e <= Len(t) /\ Char(t, e) = "}" THEN e ELSE 0
    ELSE 0

\* One left-to-right pass over template t: the literal chunks between the matches
\* (template.split) and the matches themselves (template.match with the g flag).
RECURSIVE Scan(_, _, _, _, _)
Scan(t, i, start, chunks, keys) ==
    IF i > Len(t)
    THEN [chunks |-> Append(chunks, SubSeq(t, start, Len(t))), keys |-> keys]
    ELSE LET e == MatchEnd(t, i)
         IN  IF e > 0
             THEN Scan(t, e + 1, e + 1, Append(chunks, SubSeq(t, start, i - 1)),
                       Append(keys, SubSeq(t, i, e)))
             ELSE Scan(t, i + 1, start, chunks, keys)

\* template.split(/\${\w*}/)
split(t) == Scan(t, 1, 1, <<>>, <<>>).chunks

\* template.match(/(\${\w*})/g); the empty sequence stands for null (no match)
match(t) == Scan(t, 1, 1, <<>>, <<>>).keys

----------------------------------------------------------------------------
\* The assumptions case of QueryResult.handleResponseObject: one assumption.
\* An assumption is [template, values, word, query, string]; values holds
\* [desc, word] records.  A field the server left out reads as undefined in the
\* code: "" stands for it where the code only tests the field for truth (word),
\* "undefined" where the code appends it to a string or searches for it (desc,
\* query), which is what JavaScript turns undefined into there.  string is <<>>
\* until the handler sets it, then <<str>>.

\* Mutant of WordOf: the first value's word is compared with the phrase
\* without the spaces around it.
WordOfTrimmed(o) ==
    IF o.word = "AssumingWord"
    THEN IF Len(o.values) = 0 THEN [threw |-> TRUE, str |-> ""]
         ELSE [threw |-> FALSE, str |-> o.values[1].desc]
    ELSE IF o.word # ""
    THEN [threw |-> FALSE, str |-> o.word]
    ELSE IF Len(o.values) = 0 THEN [threw |-> TRUE, str |-> ""]
    ELSE IF o.values[1].word # ""
    THEN IF o.values[1].word = "the input"
         THEN [threw |-> FALSE, str |-> o.query]
         ELSE [threw |-> FALSE, str |-> o.values[1].word]
    ELSE [threw |-> FALSE, str |-> o.query]

\* The nested conditional of the ${word} case.  threw: o.values[0] is undefined
\* and the code reads a field of it.
WordOf(o) ==
    IF o.word = "AssumingWord"
    THEN IF Len(o.values) = 0 THEN [threw |-> TRUE, str |-> ""]
         ELSE [threw |-> FALSE, str |-> o.values[1].desc]
    ELSE IF o.word # ""
    THEN [threw |-> FALSE, str |-> o.word]
    ELSE IF Len(o.values) = 0 THEN [threw |-> TRUE, str |-> ""]
    ELSE IF o.values[1].word # ""
    THEN IF o.values[1].word = " the input "
         THEN [threw |-> FALSE, str |-> o.query]
         ELSE [threw |-> FALSE, str |-> o.values[1].word]
    ELSE [threw |-> FALSE, str |-> o.query]

\* The loop over keys, from the i-th key on (i counts from 1, descIndex from 0
\* as in the code).
RECURSIVE Walk(_, _, _, _, _, _)
Walk(o, chunks, keys, i, str, descIndex) ==
    IF i > Len(keys)
    THEN [threw |-> FALSE, str |-> str \o chunks[Len(keys) + 1]]
    ELSE LET s1 == str \o chunks[i]
         IN  CASE keys[i] = "${desc}" ->
                    Walk(o, chunks, keys, i + 1,
                         IF descIndex + 1 <= Len(o.values)
                         THEN s1 \o o.values[descIndex + 1].desc ELSE s1,
                         descIndex + 1)
               [] keys[i] = "${separator}" ->
                    Walk(o, chunks, keys, i + 1, s1 \o " | ", descIndex)
               [] keys[i] = "${word}" ->
                    LET w == WordOf(o)
                    IN  IF w.threw THEN [threw |-> TRUE, str |-> s1]
                        ELSE Walk(o, chunks, keys, i + 1, s1 \o w.str, descIndex)
               [] OTHER ->
                    Walk(o, chunks, keys, i + 1, s1 \o keys[i], descIndex)

\* Mutant of Expand: the ${desc} cursor always starts at the first value.
ExpandFromFirst(o) ==
    LET chunks == split(o.template)
        keys == match(o.template)
    IN  IF Len(keys) = 0 THEN [threw |-> TRUE, str |-> ""]
        ELSE Walk(o, chunks, keys, 1, "", 0)

\* The body of the for-of loop for one assumption: its display string, or threw
\* when the code throws a TypeError (keys is null, or values[0] is undefined
\* where ${word} reads it).
Expand(o) ==
    LET chunks == split(o.template)
        keys == match(o.template)
        descIndex == IF Len(o.values) > 0 /\ includes(o.template, o.values[1].desc)
                     THEN 1 ELSE 0
    IN  IF Len(keys) = 0 THEN [threw |-> TRUE, str |-> ""]
        ELSE Walk(o, chunks, keys, 1, "", descIndex)

----------------------------------------------------------------------------
\* QueryResult.handleResponseObject

\* The for-of loop over obj.assumptions from the i-th entry on: the entries with
\* their string set, up to the one where the code throws.
RECURSIVE ExpandFrom(_, _, _)
ExpandFrom(list, i, done) ==
    IF i > Len(list) THEN [threw |-> FALSE, done |-> done]
    ELSE LET e == Expand(list[i])
         IN  IF e.threw THEN [threw |-> TRUE, done |-> done]
             ELSE ExpandFrom(list, i + 1,
                             Append(done, [list[i] EXCEPT !.string = <<e.str>>]))

\* Mutant of PodsFrom: every pod is stored under its position, a failed one
\* as well.
RECURSIVE PodsFromAllStored(_, _, _)
PodsFromAllStored(list, i, acc) ==
    IF i > Len(list) THEN acc
    ELSE PodsFromAllStored(list, i + 1,
                  IF list[i].error
                  THEN [acc EXCEPT !.erroredPods = Append(@, list[i]),
                                   !.pods = MapSet(@, list[i].position, list[i])]
                  ELSE [acc EXCEPT !.pods = MapSet(@, list[i].position, list[i])])

\* The for-of loop over obj.pods from the i-th pod on.
RECURSIVE PodsFrom(_, _, _)
PodsFrom(list, i, acc) ==
    IF i > Len(list) THEN acc
    ELSE PodsFrom(list, i + 1,
                  IF list[i].error
                  THEN [acc EXCEPT !.erroredPods = Append(@, list[i])]
                  ELSE [acc EXCEPT !.pods = MapSet(@, list[i].position, list[i])])

\* What a caller reads from a session
Visible(sess) ==
    << sess.id, sess.correctedInput, sess.didYouMean, sess.pods, sess.erroredPods,
       sess.stepByStep, sess.assumptions, sess.warnings, sess.failed,
       sess.futureTopic, sess.timedOut >>

\* this.emit('responseObject', obj).  emit calls the listeners registered at
\* that moment, at once; listening says that the caller has registered one
\* with on('responseObject', ...), and emitted logs what that listener is
\* handed and what it reads from the session when it runs.
emit(sess, obj) ==
    IF sess.listening
    THEN Append(sess.emitted,
                [obj |-> obj, seen |-> Visible(sess), state |-> sess.deferred.state])
    ELSE sess.emitted

\* Response.handleResponseObject (the super call: push, then emit) and the
\* three field copies that precede the switch.
BeforeSwitch(sess, obj) ==
    [sess EXCEPT !.responseObjects = Append(@, obj),
                 !.emitted = emit(sess, obj),
                 !.correctedInput = IF obj.input # "" THEN obj.input ELSE @,
                 !.server = IF obj.s # "" THEN obj.s ELSE @,
                 !.host = IF obj.host # "" THEN obj.host ELSE @]

\* case 'queryComplete'
caseQueryComplete(b, sess, map, obj) ==
    [ sess  |-> [sess EXCEPT !.timedOut = obj.timedOut,
                             !.deferred = resolve(@)],
      map   |-> MapDelete(map, sess.id),
      threw |-> FALSE ]

\* Mutant of caseDidyoumean: the entry under the old identifier is not deleted.
caseDidyoumeanKeepOld(b, sess, map, obj) ==
    [ sess  |-> [sess EXCEPT !.didYouMean = @ \o obj.didyoumean,
                             !.id = @ \o "_dym"],
      map   |-> MapSet(map, sess.id \o "_dym", b),
      threw |-> FALSE ]

\* Mutant of caseDidyoumean: the session is put back into the map before its
\* identifier gets the suffix.
caseDidyoumeanSetBeforeRename(b, sess, map, obj) ==
    [ sess  |-> [sess EXCEPT !.didYouMean = @ \o obj.didyoumean,
                             !.id = @ \o "_dym"],
      map   |-> MapSet(MapDelete(map, sess.id), sess.id, b),
      threw |-> FALSE ]

\* case 'didyoumean'
caseDidyoumean(b, sess, map, obj) ==
    [ sess  |-> [sess EXCEPT !.didYouMean = @ \o obj.didyoumean,
                             !.id = @ \o "_dym"],
      map   |-> MapSet(MapDelete(map, sess.id), sess.id \o "_dym", b),
      threw |-> FALSE ]

\* case 'assumptions'.  assumption.string = str writes into the object that
\* responseObjects already holds, so the stored fragment changes with it.
caseAssumptions(b, sess, map, obj) ==
    LET r == ExpandFrom(obj.assumptions, 1, <<>>)
        n == Len(r.done)
        seen == [obj EXCEPT !.assumptions =
                     r.done \o SubSeq(obj.assumptions, n + 1, Len(obj.assumptions))]
    IN  [ sess  |-> [sess EXCEPT !.assumptions = @ \o r.done,
                                 !.responseObjects[Len(sess.responseObjects)] = seen],
          map   |-> map,
          threw |-> r.threw ]

\* Mutant of caseWarnings: of an array only the first warning is pushed.
caseWarningsFirstOnly(sess, obj) ==
    [sess EXCEPT !.warnings = Append(@, obj.warnings.value[1])]

\* case 'warnings': push(...obj.warnings) for an array, push(obj.warnings) for
\* anything else
caseWarnings(sess, obj) ==
    [sess EXCEPT !.warnings =
        IF obj.warnings.isArray THEN @ \o obj.warnings.value
        ELSE Append(@, obj.warnings.value[1])]

\* Mutant of caseNoResult: the flag is left as it was.
caseNoResultSkip(sess, obj) == sess

\* case 'noResult'
caseNoResult(sess, obj) == [sess EXCEPT !.failed = TRUE]

\* The whole handler, applied to the b-th session with the manager's map.
HandleResponseObject(b, sess0, map, obj) ==
    LET sess == BeforeSwitch(sess0, obj)
        same(s) == [sess |-> s, map |-> map, threw |-> FALSE]
    IN  CASE obj.type = "queryComplete" -> caseQueryComplete(b, sess, map, obj)
          [] obj.type = "didyoumean" -> caseDidyoumean(b, sess, map, obj)
          [] obj.type = "assumptions" -> caseAssumptions(b, sess, map, obj)
          [] obj.type = "pods" -> same(PodsFrom(obj.pods, 1, sess))
          [] obj.type = "stepByStep" ->
                same([sess EXCEPT !.stepByStep = MapSet(@, obj.pod.position, obj.pod)])
          [] obj.type = "warnings" -> same(caseWarnings(sess, obj))
          [] obj.type = "noResult" -> same(caseNoResult(sess, obj))
          [] obj.type = "futureTopic" ->
                same([sess EXCEPT !.futureTopic = Append(@, obj.futureTopic)])
          [] OTHER -> same(sess)

----------------------------------------------------------------------------
\* The fragments the server is taken to send.  Every fragment has the same
\* fields; a field the server left out holds "" or <<>>.  warnings is
\* [isArray, value]: value is the array when isArray, and the one-element
\* sequence of the lone warning object when not.

NoPod == [position |-> 0, error |-> FALSE, title |-> ""]

BaseFragment ==
    [ locationId |-> "", type |-> "", input |-> "", s |-> "", host |-> "",
      timedOut |-> <<>>, didyoumean |-> <<>>, assumptions |-> <<>>,
      pods |-> <<>>, pod |-> NoPod,
      warnings |-> [isArray |-> TRUE, value |-> <<>>], futureTopic |-> "" ]

AssumptionX ==
    [ template |-> "Assuming ${desc} is ${word}",
      values |-> << [desc |-> "x", word |-> "a variable"] >>,
      word |-> "", query |-> "x", string |-> <<>> ]

FQueryComplete ==
    [BaseFragment EXCEPT !.type = "queryComplete", !.timedOut = <<"Plot">>,
                         !.host = "h1"]

FDidyoumean ==
    [BaseFragment EXCEPT !.type = "didyoumean", !.didyoumean = <<"pi", "pie">>]

FAssumptions ==
    [BaseFragment EXCEPT !.type = "assumptions", !.assumptions = <<AssumptionX>>]

\* An entry whose template has no placeholder
AssumptionPlain ==
    [ template |-> "Assuming x", values |-> << [desc |-> "x", word |-> ""] >>,
      word |-> "", query |-> "x", string |-> <<>> ]

\* An entry with a ${word} placeholder, no word of its own and no values
AssumptionNoValues ==
    [ template |-> "Use ${word}", values |-> <<>>,
      word |-> "", query |-> "x", string |-> <<>> ]

FNoPlaceholder ==
    [BaseFragment EXCEPT !.type = "assumptions", !.assumptions = <<AssumptionPlain>>]

FWordNoValues ==
    [BaseFragment EXCEPT !.type = "assumptions",
                         !.assumptions = <<AssumptionX, AssumptionNoValues>>]

FPods ==
    [BaseFragment EXCEPT
        !.type = "pods", !.input = "x^2", !.s = "s1",
        !.pods = << [position |-> 100, error |-> FALSE, title |-> "Input"],
                    [position |-> 200, error |-> TRUE, title |-> "Plot"] >>]

FPodsAgain ==
    [BaseFragment EXCEPT
        !.type = "pods",
        !.pods = << [position |-> 100, error |-> FALSE, title |-> "Result"],
                    [position |-> 100, error |-> TRUE, title |-> "Failed"] >>]

FPodsThird ==
    [BaseFragment EXCEPT
        !.type = "pods",
        !.pods = << [position |-> 200, error |-> FALSE, title |-> "Plot"],
                    [position |-> 100, error |-> FALSE, title |-> "Input"] >>]

FStepByStep ==
    [BaseFragment EXCEPT
        !.type = "stepByStep",
        !.pod = [position |-> 100, error |-> FALSE, title |-> "Steps"]]

FWarning ==
    [BaseFragment EXCEPT !.type = "warnings",
                         !.warnings = [isArray |-> FALSE, value |-> <<"w0">>]]

FWarnings ==
    [BaseFragment EXCEPT !.type = "warnings",
                         !.warnings = [isArray |-> TRUE, value |-> <<"w1", "w2", "w3">>]]

FNoResult == [BaseFragment EXCEPT !.type = "noResult"]

FFutureTopic == [BaseFragment EXCEPT !.type = "futureTopic", !.futureTopic = "topic"]

\* A kind the switch has no case for
FOther == [BaseFragment EXCEPT !.type = "relatedQueries", !.input = "y"]

\* The fragments delivered where the manager and the sessions run together:
\* the two kinds that touch the manager's map or the completion, two kinds that
\* only change the session, and a kind the switch ignores.
Fragments == {FQueryComplete, FDidyoumean, FPods, FNoResult, FOther}

----------------------------------------------------------------------------
\* The connection manager

\* id followed by k copies of the suffix the didyoumean case appends
RECURSIVE Dym(_, _)
Dym(id, k) == IF k = 0 THEN id ELSE Dym(id, k - 1) \o "_dym"

\* The locationIds of the queries handed to WebSocket s so far
SentOn(s) ==
    UNION { IF wire[i].msg.type = "init"
            THEN { wire[i].msg.messages[j].locationId :
                       j \in 1..Len(wire[i].msg.messages) }
            ELSE { wire[i].msg.locationId } :
            i \in { j \in 1..Len(wire) : wire[j].on = s } }

\* Inbound messages handled so far
Received ==
    LET RECURSIVE Sum(_)
        Sum(b) == IF b = 0 THEN 0 ELSE Len(sessions[b].responseObjects) + Sum(b - 1)
    IN  Len(dropped) + Sum(Len(sessions))

Init ==
    /\ sessions = <<>>
    /\ pendingResponses = EmptyMap
    /\ socket = 0
    /\ socketReady = FALSE
    /\ queue = <<>>
    /\ sock = <<>>
    /\ wire = <<>>
    /\ dropped = <<>>
    /\ uncaught = FALSE

\* WebSocket.send on the object this.socket holds, socks being the transport
\* states at the call.  It throws when this.socket is null (a TypeError) and
\* when that WebSocket is not open (ws refuses to send).
CanSend(socks) == socket # 0 /\ socks[socket] = "open"

send(message, socks) ==
    IF CanSend(socks)
    THEN wire' = Append(wire, [on |-> socket, msg |-> message]) /\ UNCHANGED uncaught
    ELSE uncaught' = TRUE /\ UNCHANGED wire

\* doWebsocketConnect: a new WebSocket, stored in this.socket
doWebsocketConnect ==
    /\ sock' = Append(sock, "connecting")
    /\ socket' = Len(sock) + 1

\* sendMessage
sendMessage(message) ==
    IF socketReady
    THEN /\ send(message, sock)
         /\ UNCHANGED <<queue, socket, sock>>
    ELSE /\ queue' = Append(queue, message)
         /\ IF socket = 0 THEN doWebsocketConnect ELSE UNCHANGED <<socket, sock>>
         /\ UNCHANGED <<wire, uncaught>>

\* query(input): assumptions is left at its default, []
Query(input) ==
    LET n == Len(sessions) + 1
        id == uuid(n)
    IN  /\ n <= MaxSessions
        /\ sessions' = Append(sessions, QueryResult(id, input, <<>>))
        /\ pendingResponses' = MapSet(pendingResponses, id, n)
        /\ sendMessage(Request(id, input, <<>>))
        /\ UNCHANGED <<socketReady, dropped>>

\* Mutant of OnOpen: the queue is not emptied after the init message.
OnOpenKeepQueue(s) ==
    /\ sock[s] = "connecting"
    /\ sock' = [sock EXCEPT ![s] = "open"]
    /\ send(InitMessage(queue), sock')
    /\ IF CanSend(sock')
       THEN socketReady' = TRUE /\ UNCHANGED queue
       ELSE UNCHANGED <<queue, socketReady>>
    /\ UNCHANGED <<sessions, pendingResponses, socket, dropped>>

\* The 'open' handler, run when WebSocket s opens.  Its first statement is
\* this.socket.send(...); when that throws, the two assignments after it are
\* not reached.
OnOpen(s) ==
    /\ sock[s] = "connecting"
    /\ sock' = [sock EXCEPT ![s] = "open"]
    /\ send(InitMessage(queue), sock')
    /\ IF CanSend(sock')
       THEN queue' = <<>> /\ socketReady' = TRUE
       ELSE UNCHANGED <<queue, socketReady>>
    /\ UNCHANGED <<sessions, pendingResponses, socket, dropped>>

\* The sessions the 'error' handler's loop visits: pendingResponses.values()
Outstanding == { pendingResponses[k] : k \in DOMAIN pendingResponses }

\* The 'error' handler, run when WebSocket s fails.  The error object of
\* WebSocket s is written s.
OnError(s) ==
    /\ sock[s] \in {"connecting", "open"}
    /\ sock' = [sock EXCEPT ![s] = "errored"]
    /\ socketReady' = FALSE
    /\ socket' = 0
    /\ sessions' = [b \in 1..Len(sessions) |->
                       IF b \in Outstanding
                       THEN [sessions[b] EXCEPT !.deferred = reject(@, s)]
                       ELSE sessions[b]]
    /\ UNCHANGED <<pendingResponses, queue, wire, dropped, uncaught>>

\* Mutant of OnClose: the close is treated as a failure of the outstanding
\* sessions, as the 'error' handler treats an error.
OnCloseRejects(s) ==
    /\ sock[s] \in {"open", "errored"}
    /\ sock' = [sock EXCEPT ![s] = "closed"]
    /\ socket' = 0
    /\ socketReady' = FALSE
    /\ sessions' = [b \in 1..Len(sessions) |->
                       IF b \in Outstanding
                       THEN [sessions[b] EXCEPT !.deferred = reject(@, s)]
                       ELSE sessions[b]]
    /\ UNCHANGED <<pendingResponses, queue, wire, dropped, uncaught>>

\* The 'close' handler, run when WebSocket s closes: after its error, or when
\* the server ends an open connection.
OnClose(s) ==
    /\ sock[s] \in {"open", "errored"}
    /\ sock' = [sock EXCEPT ![s] = "closed"]
    /\ socket' = 0
    /\ socketReady' = FALSE
    /\ UNCHANGED <<sessions, pendingResponses, queue, wire, dropped, uncaught>>

\* Mutant of handleMessage: the lookup's result is used without the test for a
\* missing session, so an unmatched message makes the handler throw.
handleMessageNoTest(id, f) ==
    LET obj == [f EXCEPT !.locationId = id]
    IN  IF id \notin DOMAIN pendingResponses
        THEN /\ uncaught' = TRUE
             /\ UNCHANGED <<sessions, pendingResponses, dropped>>
        ELSE LET b == pendingResponses[id]
                 r == HandleResponseObject(b, sessions[b], pendingResponses, obj)
             IN  /\ sessions' = [sessions EXCEPT ![b] = r.sess]
                 /\ pendingResponses' = r.map
                 /\ uncaught' = (uncaught \/ r.threw)
                 /\ UNCHANGED dropped

\* handleMessage, run when a WebSocket delivers fragment f for locationId id
handleMessage(id, f) ==
    LET obj == [f EXCEPT !.locationId = id]
    IN  IF id \notin DOMAIN pendingResponses
        THEN /\ dropped' = Append(dropped, id)
             /\ UNCHANGED <<sessions, pendingResponses, uncaught>>
        ELSE LET b == pendingResponses[id]
                 r == HandleResponseObject(b, sessions[b], pendingResponses, obj)
             IN  /\ sessions' = [sessions EXCEPT ![b] = r.sess]
                 /\ pendingResponses' = r.map
                 /\ uncaught' = (uncaught \/ r.threw)
                 /\ UNCHANGED dropped

\* The identifiers the server knows the query of session b by: the one it was
\* submitted under and, after each didyoumean fragment, that one with the
\* suffix once more.
RECURSIVE ServerIds(_, _)
ServerIds(b, id) ==
    IF id = sessions[b].id THEN {id} ELSE {id} \cup ServerIds(b, id \o "_dym")

\* The 'message' event of open WebSocket s: the server answers a query it was
\* sent on s, as long as fewer than max messages have come in.
Deliver(s, id, f, max) ==
    /\ sock[s] = "open"
    /\ Received < max
    /\ \E b \in 1..Len(sessions) :
          uuid(b) \in SentOn(s) /\ id \in ServerIds(b, uuid(b))
    /\ handleMessage(id, f)
    /\ UNCHANGED <<socket, socketReady, queue, sock, wire>>

OnMessage(s, id, f) == Deliver(s, id, f, MaxMsgs)

LocationIds == { Dym(uuid(n), k) : n \in 1..MaxSessions, k \in 0..MaxMsgs }

Next ==
    \/ \E input \in Inputs : Query(input)
    \/ \E s \in 1..Len(sock) : OnOpen(s)
    \/ \E s \in 1..Len(sock) : OnError(s)
    \/ \E s \in 1..Len(sock) : OnClose(s)
    \/ \E s \in 1..Len(sock), id \in LocationIds, f \in Fragments : OnMessage(s, id, f)

Spec == Init /\ [][Next]_vars

----------------------------------------------------------------------------
\* One session under every kind of fragment: the query has been submitted, the
\* caller has registered a listener for 'responseObject' on the session that
\* query() returned, the WebSocket has opened and the init message has gone
\* out; from there the server sends up to MaxFrags fragments of any kind.

SessionFragments ==
    { FQueryComplete, FDidyoumean, FAssumptions, FNoPlaceholder, FWordNoValues,
      FPods, FPodsAgain, FPodsThird, FStepByStep, FWarning, FWarnings, FNoResult,
      FFutureTopic, FOther }

InitSession ==
    /\ sessions = << [QueryResult(uuid(1), "x", <<>>) EXCEPT !.listening = TRUE] >>
    /\ pendingResponses = MapSet(EmptyMap, uuid(1), 1)
    /\ socket = 1
    /\ socketReady = TRUE
    /\ queue = <<>>
    /\ sock = << "open" >>
    /\ wire = << [on |-> 1, msg |-> InitMessage(<< Request(uuid(1), "x", <<>>) >>)] >>
    /\ dropped = <<>>
    /\ uncaught = FALSE

OnFragment(id, f) == Deliver(1, id, f, MaxFrags)

SessionIds == { Dym(uuid(1), k) : k \in 0..MaxFrags }

NextSession == \E id \in SessionIds, f \in SessionFragments : OnFragment(id, f)

SpecSession == InitSession /\ [][NextSession]_vars

----------------------------------------------------------------------------
\* The template expansion on its own: the session of InitSession is sent up to
\* MaxExpand assumptions fragments, each with one entry drawn from ExpandCases.
\* A case gives the template in pieces, literal text and placeholder names, so
\* that what split and match make of the joined string can be compared with
\* the pieces it was joined from.

lit(text) == [key |-> FALSE, s |-> text]
key(name) == [key |-> TRUE, s |-> name]
val(desc, word) == [desc |-> desc, word |-> word]

ExpandCases ==
    { \* ${desc} and ${word}, no word field, the first value has a word
      [ parts |-> << lit("Assuming "), key("desc"), lit(" is "), key("word") >>,
        values |-> << val("x", "a variable") >>, word |-> "", query |-> "x" ],
      \* the first description is spelled out in the template
      [ parts |-> << lit("x is "), key("desc") >>,
        values |-> << val("x", ""), val("y", "") >>, word |-> "", query |-> "x" ],
      \* two ${desc} around a ${separator}, text after the last placeholder
      [ parts |-> << key("desc"), key("separator"), key("desc"), lit(".") >>,
        values |-> << val("q", ""), val("z", "") >>, word |-> "", query |-> "x" ],
      \* more ${desc} than values
      [ parts |-> << key("desc"), lit(","), key("desc") >>,
        values |-> << val("q", "") >>, word |-> "", query |-> "x" ],
      \* placeholders the switch has no case for
      [ parts |-> << lit("See "), key("foo"), lit("!") >>,
        values |-> <<>>, word |-> "", query |-> "x" ],
      [ parts |-> << key(""), lit(" $ {a b}") >>,
        values |-> <<>>, word |-> "", query |-> "x" ],
      \* ${word}: every way through the nested conditional
      [ parts |-> << key("word") >>,
        values |-> << val("q", "w") >>, word |-> "AssumingWord", query |-> "x squared" ],
      [ parts |-> << key("word") >>,
        values |-> << val("q", "unit") >>, word |-> "kg", query |-> "x squared" ],
      [ parts |-> << key("word") >>,
        values |-> << val("q", "a unit") >>, word |-> "", query |-> "x squared" ],
      [ parts |-> << key("word") >>,
        values |-> << val("q", " the input ") >>, word |-> "", query |-> "x squared" ],
      [ parts |-> << key("word") >>,
        values |-> << val("q", "the input") >>, word |-> "", query |-> "x squared" ],
      [ parts |-> << key("word") >>,
        values |-> << val("q", "") >>, word |-> "", query |-> "x squared" ] }

\* The template of a case: its pieces joined, a placeholder written ${name}
RECURSIVE Template(_, _)
Template(parts, i) ==
    IF i > Len(parts) THEN ""
    ELSE (IF parts[i].key THEN "${" \o parts[i].s \o "}" ELSE parts[i].s)
         \o Template(parts, i + 1)

\* The assumption entry the server sends for a case
Assumption(c) ==
    [ template |-> Template(c.parts, 1), values |-> c.values,
      word |-> c.word, query |-> c.query, string |-> <<>> ]

ExpandFragments ==
    { [BaseFragment EXCEPT !.type = "assumptions", !.assumptions = << Assumption(c) >>] :
        c \in ExpandCases }

OnAssumptions(id, f) == Deliver(1, id, f, MaxExpand)

NextExpand == \E f \in ExpandFragments : OnAssumptions(uuid(1), f)

SpecExpand == InitSession /\ [][NextExpand]_vars

----------------------------------------------------------------------------
\* Vocabulary of the properties

Sessions == 1..Len(sessions)

\* A fragment of this kind has been applied to session b
Applied(b, type) ==
    \E i \in 1..Len(sessions[b].responseObjects) :
        sessions[b].responseObjects[i].type = type

\* Session b has not been removed by an applied queryComplete fragment
Live(b) == ~Applied(b, "queryComplete")

Settled(b) == sessions[b].deferred.state # "Pending"

\* The steps in which WebSocket s emits 'open', 'error', 'close'
OpenStep(s) == sock[s] = "connecting" /\ sock'[s] = "open"
ErrorStep(s) == sock[s] \in {"connecting", "open"} /\ sock'[s] = "errored"
CloseStep(s) == sock[s] \in {"open", "errored"} /\ sock'[s] = "closed"

\* The step is a call of query()
QueryStep == Len(sessions') = Len(sessions) + 1

\* The identifiers the server knows some query by
KnownIds == UNION { ServerIds(b, uuid(b)) : b \in Sessions }

\* id was an identifier of session b and is not its identifier now
FormerId(b, id) == id \in ServerIds(b, uuid(b)) /\ id # sessions[b].id

----------------------------------------------------------------------------
\* C1 (as claimed): a session's completion is Resolved if and only if a
\* queryComplete fragment has been applied to it.
C1_ResolvedIffQueryComplete ==
    \A b \in Sessions :
        (sessions[b].deferred.state = "Resolved") <=> Applied(b, "queryComplete")

\* C2: a completion that has settled never changes again: no later resolve or
\* reject, by a fragment or by a channel error, alters its state or its reason.
C2_SettledOnce ==
    [][\A b \in Sessions :
          Settled(b) => sessions'[b].deferred = sessions[b].deferred]_vars

\* C2's case: a queryComplete fragment was applied to a session that a channel
\* error had already rejected.
C2_Witness ==
    \E b \in Sessions :
        /\ sessions[b].deferred.state = "Rejected"
        /\ Applied(b, "queryComplete")

\* C3: every live session has exactly one entry in pendingResponses, and its
\* key is the session's current identifier.
C3_OneEntryPerLiveSession ==
    \A b \in Sessions :
        Live(b) =>
            /\ Cardinality({k \in DOMAIN pendingResponses : pendingResponses[k] = b}) = 1
            /\ sessions[b].id \in DOMAIN pendingResponses
            /\ pendingResponses[sessions[b].id] = b

\* C3's case: a session re-keyed by didyoumean and rejected by a channel error
\* is still in the map, next to another live session.
C3_Witness ==
    \E b \in Sessions :
        /\ Live(b)
        /\ sessions[b].id # uuid(b)
        /\ sessions[b].deferred.state = "Rejected"
        /\ Cardinality(DOMAIN pendingResponses) = 2

\* C4: a didyoumean fragment applied under id moves the session's entry from id
\* to id + "_dym"; afterwards a fragment under a former identifier is dropped
\* and changes no session, and a fragment under the new identifier is applied
\* to that session.
C4_Rekey ==
    [][\A id \in KnownIds, f \in Fragments :
          (\E s \in 1..Len(sock) : OnMessage(s, id, f)) =>
            /\ (id \in DOMAIN pendingResponses /\ f.type = "didyoumean") =>
                  LET b == pendingResponses[id]
                      new == id \o "_dym"
                  IN  /\ id \notin DOMAIN pendingResponses'
                      /\ new \in DOMAIN pendingResponses'
                      /\ pendingResponses'[new] = b
                      /\ sessions'[b].id = new
            /\ \A b \in Sessions :
                  /\ (Live(b) /\ FormerId(b, id)) =>
                        /\ sessions' = sessions
                        /\ pendingResponses' = pendingResponses
                        /\ dropped' = Append(dropped, id)
                  /\ (Live(b) /\ id = sessions[b].id /\ id # uuid(b)) =>
                        sessions'[b].responseObjects =
                            Append(sessions[b].responseObjects,
                                   [f EXCEPT !.locationId = id])]_vars

\* C4's case: a live session sits under its "_dym" identifier and a fragment
\* under its original identifier has been dropped since.
C4_Witness ==
    \E b \in Sessions :
        /\ Live(b)
        /\ sessions[b].id = uuid(b) \o "_dym"
        /\ pendingResponses[sessions[b].id] = b
        /\ \E i \in 1..Len(dropped) : dropped[i] = uuid(b)

\* C5 (as claimed): a query() made while not ready queues its message and opens
\* a connection only when there is no handle; a WebSocket that opens is sent one
\* init message carrying the queue in order, after which the queue is empty and
\* the manager is ready; a query() made while ready sends at once and leaves the
\* queue empty.
C5_QueueThenInit ==
    [][/\ \A s \in 1..Len(sock) :
             OpenStep(s) =>
                /\ wire' = Append(wire, [on |-> s, msg |-> InitMessage(queue)])
                /\ queue' = <<>>
                /\ socketReady'
       /\ QueryStep =>
             LET n == Len(sessions')
                 m == Request(sessions'[n].id, sessions'[n].originalInput,
                              sessions'[n].inputAssumptions)
             IN  IF socketReady
                 THEN /\ wire' = Append(wire, [on |-> socket, msg |-> m])
                      /\ queue = <<>> /\ queue' = <<>>
                 ELSE /\ queue' = Append(queue, m)
                      /\ wire' = wire
                      /\ (Len(sock') = Len(sock) + 1) <=> (socket = 0)]_vars

\* C6 (as claimed): a channel error drops the handle, leaves the map as it is
\* and leaves every session in the map rejected with that error, and no other
\* session touched.
C6_AllOutstandingRejectedWithThatError ==
    [][\A s \in 1..Len(sock) :
          ErrorStep(s) =>
            /\ socket' = 0 /\ ~socketReady'
            /\ pendingResponses' = pendingResponses
            /\ \A b \in Sessions :
                  sessions'[b].deferred =
                      IF b \in Outstanding
                      THEN [state |-> "Rejected", reason |-> s]
                      ELSE sessions[b].deferred]_vars

\* C6 (amended): a channel error drops the handle, leaves the map as it is,
\* rejects with that error the sessions in the map whose completion is still
\* pending, and changes nothing else of any session.
C6_PendingOutstandingRejected ==
    [][\A s \in 1..Len(sock) :
          ErrorStep(s) =>
            /\ socket' = 0 /\ ~socketReady'
            /\ pendingResponses' = pendingResponses
            /\ \A b \in Sessions :
                  sessions'[b] =
                      IF b \in Outstanding /\ ~Settled(b)
                      THEN [sessions[b] EXCEPT
                               !.deferred = [state |-> "Rejected", reason |-> s]]
                      ELSE sessions[b]]_vars

\* C6's case: WebSocket s has just failed; one session is rejected with its
\* error and still in the map, another was resolved before and is untouched.
C6_Witness ==
    \E s \in 1..Len(sock), b1, b2 \in Sessions :
        /\ sock[s] = "errored"
        /\ sessions[b1].deferred = [state |-> "Rejected", reason |-> s]
        /\ b1 \in Outstanding
        /\ sessions[b2].deferred.state = "Resolved"

\* C7 (as claimed): once a session's completion has settled, no step changes
\* what a caller reads from the session.
C7_FrozenAfterSettlement ==
    [][\A b \in Sessions :
          Settled(b) => Visible(sessions'[b]) = Visible(sessions[b])]_vars

\* C8: a close event drops the handle and the ready flag and changes nothing
\* else: no session, not the map, not the queue.
C8_CloseFrame ==
    [][\A s \in 1..Len(sock) :
          CloseStep(s) =>
            /\ socket' = 0 /\ ~socketReady'
            /\ UNCHANGED <<sessions, pendingResponses, queue, wire, dropped,
                           uncaught>>]_vars

\* C8's case: a WebSocket has closed while another was connecting, a session
\* was pending and a message was queued; the session is still pending and the
\* message still queued.
C8_Witness ==
    \E s, t \in 1..Len(sock), b \in Sessions :
        /\ sock[s] = "closed" /\ sock[t] = "connecting"
        /\ socket = 0
        /\ queue # <<>>
        /\ b \in Outstanding /\ ~Settled(b)

\* C9 (as claimed): every WebSocket that has become ready was sent an init
\* message, and the queue is never non-empty while the manager is ready.
C9_ReadyChannelGotInit ==
    /\ \A s \in 1..Len(sock) :
          sock[s] = "open" =>
              \E i \in 1..Len(wire) : wire[i].on = s /\ wire[i].msg.type = "init"
    /\ socketReady => queue = <<>>

\* C10: an inbound message whose locationId is not in the map changes nothing
\* but the log of dropped identifiers and raises no error; one whose locationId
\* is in the map is applied to the session stored there and changes no other.
C10_Demultiplex ==
    [][\A id \in KnownIds, f \in Fragments :
          (\E s \in 1..Len(sock) : OnMessage(s, id, f)) =>
            IF id \notin DOMAIN pendingResponses
            THEN /\ dropped' = Append(dropped, id)
                 /\ UNCHANGED <<sessions, pendingResponses, queue, socket,
                                socketReady, sock, wire, uncaught>>
            ELSE LET b == pendingResponses[id]
                 IN  /\ Len(sessions'[b].responseObjects) =
                            Len(sessions[b].responseObjects) + 1
                     /\ \A c \in Sessions \ {b} : sessions'[c] = sessions[c]
                     /\ UNCHANGED <<queue, socket, socketReady, sock, wire,
                                    dropped>>]_vars

\* C10's case: a message was dropped while a session was outstanding, and a
\* message was applied to one of two sessions.
C10_Witness ==
    /\ dropped # <<>>
    /\ ~uncaught
    /\ \E b \in Outstanding : sessions[b].responseObjects # <<>>

----------------------------------------------------------------------------
\* The i-th element of a sequence of sequences, flattened from the i-th on
RECURSIVE Flatten(_, _)
Flatten(seqs, i) == IF i > Len(seqs) THEN <<>> ELSE seqs[i] \o Flatten(seqs, i + 1)

\* The fragments of one kind applied to session b, in arrival order
OfType(b, type) == SelectSeq(sessions[b].responseObjects, LAMBDA o : o.type = type)

\* C11 (as claimed): the listener of a session fires exactly once for every
\* fragment delivered to it, is handed that fragment, and runs after the
\* fragment's effect on the session: what it saw at the latest fragment is the
\* session as that fragment left it, and at a queryComplete fragment the
\* completion was already settled.
C11_ListenerAfterMutation ==
    \A b \in { c \in Sessions : sessions[c].listening } :
        LET e == sessions[b].emitted
            r == sessions[b].responseObjects
        IN  /\ Len(e) = Len(r)
            /\ \A i \in 1..Len(e) :
                  /\ e[i].obj.locationId = r[i].locationId
                  /\ e[i].obj.type = r[i].type
                  /\ e[i].obj.type = "queryComplete" => e[i].state # "Pending"
            /\ Len(e) > 0 => e[Len(e)].seen = Visible(sessions[b])

\* C12 (as claimed): applying a fragment never throws, whatever its kind and
\* payload, and the step that delivers it leaves the queue and the channel
\* state as they were.
C12_ApplyNeverThrows ==
    [][ \A id \in SessionIds, f \in SessionFragments :
           OnFragment(id, f) =>
               /\ uncaught' = uncaught
               /\ UNCHANGED <<socket, socketReady, queue, sock, wire>> ]_vars

\* C13: in every reachable state the pods of a session hold, for exactly the
\* positions some non-failed pod was delivered for, the non-failed pod
\* delivered last for that position, and erroredPods holds the failed pods in
\* arrival order; so a failed pod never enters, overwrites or removes an entry
\* of pods.
C13_PodsLastGoodWins ==
    \A b \in Sessions :
        LET fr == OfType(b, "pods")
            flat == Flatten([i \in 1..Len(fr) |-> fr[i].pods], 1)
            good == { i \in 1..Len(flat) : ~flat[i].error }
            last(p) == CHOOSE i \in good :
                          /\ flat[i].position = p
                          /\ \A j \in good : flat[j].position = p => j <= i
        IN  /\ DOMAIN sessions[b].pods = { flat[i].position : i \in good }
            /\ \A p \in DOMAIN sessions[b].pods : sessions[b].pods[p] = flat[last(p)]
            /\ sessions[b].erroredPods = SelectSeq(flat, LAMBDA q : q.error)

\* A position was given a pod, then another one, then a failed one
C13_Witness ==
    \E b \in Sessions :
        /\ 100 \in DOMAIN sessions[b].pods
        /\ sessions[b].pods[100].title = "Result"
        /\ Len(sessions[b].erroredPods) = 2
        /\ sessions[b].erroredPods[2].position = 100

\* C14: failed is false until a noResult fragment is applied to the session
\* and true in every state after; the step that applies it leaves the
\* completion and the session's place in the outstanding map as they were.
C14_FailedLatch ==
    /\ [](\A b \in Sessions : sessions[b].failed <=> Applied(b, "noResult"))
    /\ [][ \A b \in Sessions :
             /\ sessions[b].failed => sessions'[b].failed
             /\ (~sessions[b].failed /\ sessions'[b].failed) =>
                   /\ sessions'[b].deferred = sessions[b].deferred
                   /\ pendingResponses' = pendingResponses ]_vars

\* A noResult fragment was applied, another fragment followed it, the session
\* is still failed, pending and in the map
C14_Witness ==
    \E b \in Sessions :
        LET r == sessions[b].responseObjects
        IN  /\ sessions[b].failed
            /\ Len(r) = 2 /\ r[1].type = "noResult" /\ r[2].type = "pods"
            /\ sessions[b].deferred.state = "Pending"
            /\ b \in Outstanding

\* C16: the warnings of a session are the warnings of its warnings fragments
\* in arrival order, one entry for a lone object and k for an array of k.
C16_WarningsAppended ==
    \A b \in Sessions :
        LET fr == OfType(b, "warnings")
        IN  sessions[b].warnings =
                Flatten([i \in 1..Len(fr) |-> fr[i].warnings.value], 1)

\* A lone warning object, then an array of three
C16_Witness ==
    \E b \in Sessions : sessions[b].warnings = <<"w0", "w1", "w2", "w3">>

\* The WebSockets that are connecting or open
LiveSockets == { s \in 1..Len(sock) : sock[s] \in {"connecting", "open"} }

\* C17 (as claimed): at most one WebSocket is connecting or open at any time,
\* and an event of a WebSocket that is not the current one changes neither
\* this.socket nor socketReady.
C17_SingleChannel ==
    [][ /\ Cardinality(LiveSockets') <= 1
        /\ \A s \in 1..Len(sock) :
              (socket # 0 /\ socket # s /\ (OpenStep(s) \/ ErrorStep(s) \/ CloseStep(s)))
                 => (socket' = socket /\ socketReady' = socketReady) ]_vars

\* C18 (as claimed): the id of a session is the one it was submitted under,
\* or that one with the suffix _dym once.
C18_RenamedAtMostOnce ==
    \A b \in Sessions : sessions[b].id \in { uuid(b), uuid(b) \o "_dym" }

\* The locationIds of the query-start messages handed to some WebSocket, in
\* the order they were sent
Transmitted ==
    Flatten([i \in 1..Len(wire) |->
                IF wire[i].msg.type = "init"
                THEN [j \in 1..Len(wire[i].msg.messages) |->
                         wire[i].msg.messages[j].locationId]
                ELSE << wire[i].msg.locationId >>], 1)

\* C19: the messages transmitted so far, followed by the messages in the
\* queue, are the messages of the submitted queries, each once and in submit
\* order.
C19_MessageConservation ==
    Transmitted \o [j \in 1..Len(queue) |-> queue[j].locationId]
        = [n \in 1..Len(sessions) |-> uuid(n)]

\* After a reconnection: one message went out on the first WebSocket, the
\* next one on its replacement
C19_Witness ==
    /\ Len(wire) = 2
    /\ wire[1].on # wire[2].on
    /\ Len(Transmitted) = 2
    /\ queue = <<>>

----------------------------------------------------------------------------
\* What ${word} stands for in assumption o, as the code has it: the first
\* value's word is compared with " the input ", spaces included, and the text
\* put in its place is the query field of the assumption.
WordChain(o) ==
    CASE o.word = "AssumingWord" -> o.values[1].desc
      [] o.word # "AssumingWord" /\ o.word # "" -> o.word
      [] o.word = "" /\ o.values[1].word \notin {"", " the input "} -> o.values[1].word
      [] o.word = "" /\ o.values[1].word \in {"", " the input "} -> o.query

\* The display string of a case, from its pieces: the text of a literal piece,
\* the description under the cursor for ${desc} (nothing when the values are
\* used up), " | " for ${separator}, WordChain for ${word}, and any other
\* placeholder as it is written.
RECURSIVE Pieces(_, _, _)
Pieces(c, i, cursor) ==
    IF i > Len(c.parts) THEN ""
    ELSE LET p == c.parts[i]
         IN  CASE ~p.key -> p.s \o Pieces(c, i + 1, cursor)
               [] p.key /\ p.s = "desc" ->
                     (IF cursor <= Len(c.values) THEN c.values[cursor].desc ELSE "")
                        \o Pieces(c, i + 1, cursor + 1)
               [] p.key /\ p.s = "separator" -> " | " \o Pieces(c, i + 1, cursor)
               [] p.key /\ p.s = "word" -> WordChain(c) \o Pieces(c, i + 1, cursor)
               [] OTHER -> "${" \o p.s \o "}" \o Pieces(c, i + 1, cursor)

\* The cursor starts at the second value exactly when the first value's
\* description occurs in the template
Expected(c) ==
    Pieces(c, 1, IF Len(c.values) > 0
                    /\ includes(Template(c.parts, 1), c.values[1].desc)
                 THEN 2 ELSE 1)

\* C15: every assumption entry a session holds is the entry of a case with the
\* display string that the pieces of the case give: chunks and placeholders in
\* lockstep, ${desc} from the cursor on, ${separator} as " | ", an unknown
\* placeholder verbatim, the trailing chunk last.
C15_TemplateExpansion ==
    \A b \in Sessions : \A i \in 1..Len(sessions[b].assumptions) :
        \E c \in ExpandCases :
            sessions[b].assumptions[i] =
                [Assumption(c) EXCEPT !.string = << Expected(c) >>]

\* The template 'Assuming ${desc} is ${word}' came out as 'Assuming x is a
\* variable', and a template that spells out the first description took the
\* second one
C15_Witness ==
    \E b \in Sessions :
        /\ Len(sessions[b].assumptions) = 2
        /\ sessions[b].assumptions[1].string = << "Assuming x is a variable" >>
        /\ sessions[b].assumptions[2].string = << "x is y" >>

\* The entries of a session whose template is the ${word} placeholder alone
WordEntries(b) ==
    { i \in 1..Len(sessions[b].assumptions) :
         sessions[b].assumptions[i].template = "${word}" }

\* C20 (as claimed): ${word} stands for the first value's description when the
\* assumption's word is AssumingWord; else for the assumption's word when it
\* is not empty; else for the first value's word, unless that is empty or the
\* phrase 'the input', and then for the original query text of the session.
C20_WordChainAsClaimed ==
    \A b \in Sessions : \A i \in WordEntries(b) :
        LET o == sessions[b].assumptions[i]
        IN  o.string =
              << CASE o.word = "AssumingWord" -> o.values[1].desc
                   [] o.word # "AssumingWord" /\ o.word # "" -> o.word
                   [] o.word = "" /\ o.values[1].word \notin {"", "the input"} ->
                         o.values[1].word
                   [] o.word = "" /\ o.values[1].word \in {"", "the input"} ->
                         sessions[b].originalInput >>

\* C20 (amended): the same chain, with the phrase ' the input ' (a space before
\* and after it) and the query field of the assumption in place of the
\* session's original query text.
C20_WordChain ==
    \A b \in Sessions : \A i \in WordEntries(b) :
        sessions[b].assumptions[i].string = << WordChain(sessions[b].assumptions[i]) >>

\* A first value's word of ' the input ' was replaced by the assumption's
\* query, and one of 'the input' was kept
C20_Witness ==
    \E b \in Sessions :
        /\ Len(sessions[b].assumptions) = 2
        /\ WordEntries(b) = {1, 2}
        /\ sessions[b].assumptions[1].values = << val("q", " the input ") >>
        /\ sessions[b].assumptions[1].string = << "x squared" >>
        /\ sessions[b].assumptions[2].values = << val("q", "the input") >>
        /\ sessions[b].assumptions[2].string = << "the input" >>

====
